---------------------------- MODULE Spec2Model ----------------------------
(***************************************************************************)
(* rules-doctor: audit of repositories against file-content checks.        *)
(*                                                                         *)
(* Strings are sequences of chunks (TLA+ strings); the text is the         *)
(* concatenation of the chunks.  Names, repository identifiers, patterns   *)
(* and contents are written one character per chunk, so that split('/'),   *)
(* startsWith('!'), slice(1), sort() and RegExp.test can be computed on    *)
(* them as the code computes them.                                         *)
(***************************************************************************)
EXTENDS Integers, Sequences, FiniteSets, TLC

VARIABLES
    pc,            \* position of main() / the evaluation loop
    argv2,         \* process.argv[2], <<>> when absent
    configFile,    \* what config.json holds
    repositories,  \* main: const repositories
    checks,        \* main: let checks (after the name filter)
    ri,            \* checkAllRepositories: position in repositories
    ci,            \* checkRepository: position in checks
    repoResults,   \* checkRepository: const results
    allResults,    \* checkAllRepositories: const allResults
    content,       \* checkRepository: const content, <<>> while unset
    fetchLog,      \* responses received by the running fetchFileContent
    history,       \* what happened in each evaluation, in order
    results,       \* main: const results, [set |-> FALSE] until returned
    console,       \* failure lines printed by reportResults
    report,        \* report.md: [written, lines]
    exitCode,      \* process exit status, -1 while running
    rcContent,     \* runCheck harness: content
    rcPattern,     \* runCheck harness: X
    rcPlain,       \* runCheck harness: runCheck(content, X)
    rcBang         \* runCheck harness: runCheck(content, "!" + X)

vars == <<pc, argv2, configFile, repositories, checks, ri, ci, repoResults,
          allResults, content, fetchLog, history, results, console, report,
          exitCode, rcContent, rcPattern, rcPlain, rcBang>>

mainVars == <<pc, argv2, configFile, repositories, checks, ri, ci,
              repoResults, allResults, content, fetchLog, history, results,
              console, report, exitCode>>

rcVars == <<rcContent, rcPattern, rcPlain, rcBang>>

---------------------------------------------------------------------------
(* Bounds *)

MaxRepos == 2
MaxChecks == 2
MaxContentLen == 2
MaxPatternLen == 2

---------------------------------------------------------------------------
(* Generic helpers *)

SeqsUpTo(S, n) == UNION {[1..k -> S] : k \in 0..n}

Range(s) == {s[i] : i \in 1..Len(s)}

IsPrefix(p, s) == Len(p) <= Len(s) /\ \A i \in 1..Len(p) : p[i] = s[i]

\* UTF-16 code unit of a one-character chunk
Code(c) ==
    CASE c = "!" -> 33 [] c = "(" -> 40 [] c = "." -> 46 [] c = "/" -> 47
      [] c = "a" -> 97 [] c = "b" -> 98 [] c = "c" -> 99 [] c = "d" -> 100
      [] c = "e" -> 101 [] c = "n" -> 110 [] c = "o" -> 111
      [] c = "r" -> 114 [] c = "s" -> 115 [] c = "t" -> 116
      [] c = "u" -> 117 [] c = "z" -> 122

\* Array.prototype.sort() default comparison: by code units, shorter first
\* when one is a prefix of the other
StrLess(s, t) ==
    \/ (Len(s) < Len(t) /\ IsPrefix(s, t))
    \/ \E k \in 1..Len(s) :
          /\ k <= Len(t)
          /\ \A j \in 1..(k - 1) : s[j] = t[j]
          /\ Code(s[k]) < Code(t[k])

\* Object.keys(obj).sort() for a set of string keys
SortedKeys(S) ==
    CHOOSE q \in [1..Cardinality(S) -> S] :
        /\ Range(q) = S
        /\ \A i \in 1..(Cardinality(S) - 1) : StrLess(q[i], q[i + 1])

---------------------------------------------------------------------------
(* Regular expressions, for the pattern syntax the catalog uses:           *)
(* literal characters, "." (any character), "(" (opens a group).           *)

\* new RegExp(pattern) throws SyntaxError: no ")" exists in the alphabet,
\* so every "(" is an unterminated group
Malformed(pattern) == \E i \in 1..Len(pattern) : pattern[i] = "("

SyntaxErrorMessage(pattern) ==
    <<"Invalid regular expression: /">> \o pattern
        \o <<"/: Unterminated group">>

\* regex.test(content): a match starting at some offset
Test(pattern, text) ==
    \E off \in 0..(Len(text) - Len(pattern)) :
        \A k \in 1..Len(pattern) :
            pattern[k] = "." \/ pattern[k] = text[off + k]

---------------------------------------------------------------------------
(* Inputs: repository identifiers, files, bodies and the check catalog *)

RepoBA == <<"b", "/", "a">>      \* "b/a"
RepoA == <<"a">>                 \* "a": no repository segment

RepoIds == {RepoBA, RepoA}

LICENSE == <<"LICENSE">>
README == <<"README">>

\* bodies a branch may serve with a success status
Bodies == {<<"a">>, <<"b">>}

\* body of a non-success response
ErrorPage == <<"4", "0", "4">>

NameA == <<"a">>
NameB == <<"b">>
NameD == <<"d">>
NameE == <<"e">>
NameConstructor == <<"c", "o", "n", "s", "t", "r", "u", "c", "t", "o", "r">>

CheckA ==
    [name |-> NameA, file |-> LICENSE, pattern |-> <<"a">>,
     enabled |-> TRUE, exclude |-> <<>>, requires |-> <<>>]

CheckB ==
    [name |-> NameB, file |-> README, pattern |-> <<"!", "a">>,
     enabled |-> TRUE, exclude |-> <<>>,
     requires |-> <<[check |-> NameA, reason |-> <<"needs base config">>]>>]

CheckD ==
    [name |-> NameD, file |-> LICENSE, pattern |-> <<"b">>,
     enabled |-> FALSE, exclude |-> <<>>, requires |-> <<>>]

CheckE ==
    [name |-> NameE, file |-> README, pattern |-> <<"(">>,
     enabled |-> TRUE,
     exclude |-> <<[repository |-> RepoBA, reason |-> <<"legacy">>]>>,
     requires |-> <<>>]

CheckConstructor ==
    [name |-> NameConstructor, file |-> LICENSE, pattern |-> <<"a">>,
     enabled |-> TRUE, exclude |-> <<>>, requires |-> <<>>]

Catalog == {CheckA, CheckB, CheckD, CheckE, CheckConstructor}

\* config.checks: check names are unique within a configuration
CheckLists ==
    {l \in SeqsUpTo(Catalog, MaxChecks) :
        \A i, j \in 1..Len(l) : i # j => l[i].name # l[j].name}

RepoLists == SeqsUpTo(RepoIds, MaxRepos)

\* process.argv[2]: absent, or a check name
Arguments == {<<>>, NameA, <<"z">>}

ConfigFiles ==
    {[loadable |-> FALSE, dynamicEnabled |-> FALSE,
      hasRepositories |-> FALSE, repositories |-> <<>>, checks |-> <<>>]}
    \cup
    {[loadable |-> TRUE, dynamicEnabled |-> dyn, hasRepositories |-> FALSE,
      repositories |-> <<>>, checks |-> cl] :
        dyn \in BOOLEAN, cl \in CheckLists}
    \cup
    {[loadable |-> TRUE, dynamicEnabled |-> FALSE, hasRepositories |-> TRUE,
      repositories |-> rl, checks |-> cl] :
        rl \in RepoLists, cl \in CheckLists}

---------------------------------------------------------------------------
(* checker.ts *)

\* repoPath.split('/')
RECURSIVE SplitFrom(_, _, _)
SplitFrom(s, i, cur) ==
    IF i > Len(s) THEN <<cur>>
    ELSE IF s[i] = "/" THEN <<cur>> \o SplitFrom(s, i + 1, <<>>)
    ELSE SplitFrom(s, i + 1, Append(cur, s[i]))

Split(s) == SplitFrom(s, 1, <<>>)

\* const [owner, repoName] = repoPath.split('/'); !owner || !repoName
InvalidRepository(repoPath) ==
    LET segs == Split(repoPath) IN
        \/ segs[1] = <<>>
        \/ Len(segs) < 2
        \/ segs[2] = <<>>

InvalidFormatMessage(repoPath) ==
    <<"Invalid repository format: ">> \o repoPath
        \o <<". Expected \"owner/repo\"">>

NotFoundMessage(filePath) == <<"File not found: ">> \o filePath

\* `${error}`: Error.prototype.toString
ErrorToString(error) == <<error.name, ": ">> \o error.message

\* catch (error) { throw new Error(`Failed to fetch ${filePath}: ${error}`) }
FailedToFetchMessage(filePath, error) ==
    <<"Failed to fetch ">> \o filePath \o <<": ">> \o ErrorToString(error)

\* the rejection of fetch() on a transport failure
TransportError == [name |-> "FetchError", message |-> <<"request failed">>]

\* what a fetch() may settle to
Responses ==
    {[kind |-> "response", ok |-> TRUE, body |-> b] : b \in Bodies}
    \cup {[kind |-> "response", ok |-> FALSE, body |-> ErrorPage]}
    \cup {[kind |-> "reject", ok |-> FALSE, body |-> <<>>]}

\* fetchFileContent returning the main body without looking at response.ok
OnMainResponseIgnoresStatus(resp, filePath) ==
    IF resp.kind = "reject"
    THEN [do |-> "throw",
          message |-> FailedToFetchMessage(filePath, TransportError)]
    ELSE [do |-> "return", message |-> resp.body]

\* fetchFileContent after the response for the main branch
OnMainResponse(resp, filePath) ==
    IF resp.kind = "reject"
    THEN [do |-> "throw",
          message |-> FailedToFetchMessage(filePath, TransportError)]
    ELSE IF ~resp.ok
    THEN [do |-> "fetchMaster", message |-> <<>>]
    ELSE [do |-> "return", message |-> resp.body]

\* fetchFileContent after the response for the master branch
OnMasterResponse(resp, filePath) ==
    IF resp.kind = "reject"
    THEN [do |-> "throw",
          message |-> FailedToFetchMessage(filePath, TransportError)]
    ELSE IF ~resp.ok
    THEN [do |-> "throw",
          message |-> FailedToFetchMessage(filePath,
                        [name |-> "Error",
                         message |-> NotFoundMessage(filePath)])]
    ELSE [do |-> "return", message |-> resp.body]

IsNegated(pattern) == Len(pattern) > 0 /\ pattern[1] = "!"

\* runCheck stripping the "!" but returning the match unnegated
runCheckNeverNegates(text, pattern) ==
    LET p == IF IsNegated(pattern) THEN Tail(pattern) ELSE pattern
    IN  IF Malformed(p)
        THEN [threw |-> TRUE, value |-> FALSE,
              message |-> SyntaxErrorMessage(p)]
        ELSE [threw |-> FALSE, value |-> Test(p, text), message |-> <<>>]

runCheck(text, pattern) ==
    LET isNegated == IsNegated(pattern)
        p == IF isNegated THEN Tail(pattern) ELSE pattern
    IN  IF Malformed(p)
        THEN [threw |-> TRUE, value |-> FALSE,
              message |-> SyntaxErrorMessage(p)]
        ELSE [threw |-> FALSE,
              value |-> IF isNegated THEN ~Test(p, text) ELSE Test(p, text),
              message |-> <<>>]

\* results.push({repository, check, filePath, passed})
PassResult(repoPath, check, passed) ==
    [repository |-> repoPath, check |-> check.name,
     filePath |-> check.file, passed |-> passed]

\* results.push({repository, check, filePath, passed: false, error})
ErrorResult(repoPath, check, message) ==
    [repository |-> repoPath, check |-> check.name,
     filePath |-> check.file, passed |-> FALSE, error |-> message]

\* the results of a repository put in front of the earlier ones
PushAllFront(all, rs) == rs \o all

\* the results of a repository pushed twice
PushAllTwice(all, rs) == all \o rs \o rs

\* allResults.push(...results)
PushAll(all, rs) == all \o rs

\* checks.filter(check => check.enabled !== false): only logged
enabledChecks(cs) == SelectSeq(cs, LAMBDA c : c.enabled # FALSE)

---------------------------------------------------------------------------
(* index.ts: reporting *)

\* property names every object literal {} inherits from Object.prototype;
\* acc[key] is truthy for them and has no push method
InheritedKeys ==
    {NameConstructor,
     <<"t", "o", "S", "t", "r", "i", "n", "g">>,
     <<"v", "a", "l", "u", "e", "O", "f">>,
     <<"_", "_", "p", "r", "o", "t", "o", "_", "_">>}

\* failure.error.includes('File not found'), on chunks
IncludesFileNotFound(text) ==
    \E i \in 1..Len(text) : text[i] = "File not found: "

\* results.filter(result => !result.passed)
failedResults(rs) == SelectSeq(rs, LAMBDA r : ~r.passed)

\* results.some(result => !result.passed)
hasFailures(rs) == \E i \in 1..Len(rs) : ~rs[i].passed

\* the ternary of the exit status inverted
ExitStatusInverted(rs) == IF hasFailures(rs) THEN 0 ELSE 1

\* process.exit(hasFailures ? 1 : 0)
ExitStatus(rs) == IF hasFailures(rs) THEN 1 ELSE 0

\* CheckResult carries no requires: the property is read from the result
getFailedRequires(failure, all) ==
    IF "requires" \notin DOMAIN failure THEN <<>>
    ELSE IF Len(failure.requires) = 0 THEN <<>>
    ELSE SelectSeq(failure.requires,
            LAMBDA req :
                \E i \in 1..Len(all) :
                    /\ all[i].check = req.check
                    /\ all[i].repository = failure.repository
                    /\ \A j \in 1..(i - 1) :
                          ~(/\ all[j].check = req.check
                            /\ all[j].repository = failure.repository)
                    /\ ~all[i].passed)

\* the status marker of one failure
StatusOf(failure) ==
    IF "error" \in DOMAIN failure /\ failure.error # <<>>
    THEN IF IncludesFileNotFound(failure.error)
         THEN [marker |-> "File not found", text |-> <<>>]
         ELSE [marker |-> "error", text |-> failure.error]
    ELSE [marker |-> "Pattern not found", text |-> <<>>]

\* reduce((acc, result) => { if (!acc[key]) acc[key] = []; acc[key].push })
\* on acc = {}: throws TypeError at the first inherited key
GroupingThrows(keys) == \E i \in 1..Len(keys) : keys[i] \in InheritedKeys

CheckKeys(rs) == [i \in 1..Len(rs) |-> rs[i].check]

RepositoryKeys(rs) == [i \in 1..Len(rs) |-> rs[i].repository]

\* the lines of one failure: console prints the failure, then one
\* "Fix first" line per failed requirement; markdown puts them in the row
FailureLines(style, failure, all) ==
    LET reqs == getFailedRequires(failure, all)
        line == [kind |-> "failure", check |-> failure.check,
                 repository |-> failure.repository,
                 filePath |-> failure.filePath,
                 status |-> StatusOf(failure)]
    IN  IF style = "markdown"
        THEN <<[line EXCEPT !.kind = "row"] @@
               [fixFirst |-> [i \in 1..Len(reqs) |-> reqs[i].check]]>>
        ELSE <<line>> \o
             [i \in 1..Len(reqs) |->
                [kind |-> "fixFirst", check |-> reqs[i].check,
                 reason |-> reqs[i].reason]]

RECURSIVE FlattenLines(_, _, _, _)
FlattenLines(style, failures, all, i) ==
    IF i > Len(failures) THEN <<>>
    ELSE FailureLines(style, failures[i], all)
            \o FlattenLines(style, failures, all, i + 1)

\* for (const repo of sortedRepos) { ... for (const failure of ...) }
RECURSIVE RepositoryGroups(_, _, _, _, _)
RepositoryGroups(style, failures, all, repos, k) ==
    IF k > Len(repos) THEN <<>>
    ELSE LET repoFailures ==
                SelectSeq(failures, LAMBDA r : r.repository = repos[k])
             head == IF style = "console"
                     THEN <<[kind |-> "repository", repository |-> repos[k]]>>
                     ELSE <<>>
         IN  head \o FlattenLines(style, repoFailures, all, 1)
                  \o RepositoryGroups(style, failures, all, repos, k + 1)

\* for (const checkName of sortedCheckNames) { ... }
RECURSIVE CheckGroups(_, _, _, _, _)
CheckGroups(style, failed, all, names, k) ==
    IF k > Len(names) THEN [threw |-> FALSE, lines |-> <<>>]
    ELSE LET failures == SelectSeq(failed, LAMBDA r : r.check = names[k])
             head == <<[kind |-> "check", check |-> names[k]]>>
         IN  IF GroupingThrows(RepositoryKeys(failures))
             THEN [threw |-> TRUE, lines |-> head]
             ELSE LET body == RepositoryGroups(style, failures, all,
                                SortedKeys(Range(RepositoryKeys(failures))), 1)
                      rest == CheckGroups(style, failed, all, names, k + 1)
                  IN  [threw |-> rest.threw,
                       lines |-> head \o body \o rest.lines]

\* the grouping and rendering shared by both reporters
Render(style, rs) ==
    LET failed == failedResults(rs) IN
        IF Len(failed) = 0
        THEN [threw |-> FALSE, lines |-> <<[kind |-> "allPassed"]>>]
        ELSE IF GroupingThrows(CheckKeys(failed))
        THEN [threw |-> TRUE, lines |-> <<>>]
        ELSE CheckGroups(style, failed, rs,
                SortedKeys(Range(CheckKeys(failed))), 1)

reportResults(rs) == Render("console", rs)

generateMarkdownReport(rs) == Render("markdown", rs)

\* spec 4.4: the listing call returns the tagged repositories, or fails
fetchBazelContribRepositories ==
    {[threw |-> FALSE, list |-> l] : l \in RepoLists}
        \cup {[threw |-> TRUE, list |-> <<>>]}

---------------------------------------------------------------------------
(* The program: main() of index.ts driving RepositoryChecker *)

Init ==
    /\ pc = "loadConfig"
    /\ argv2 \in Arguments
    /\ configFile \in ConfigFiles
    /\ repositories = <<>>
    /\ checks = <<>>
    /\ ri = 0
    /\ ci = 0
    /\ repoResults = <<>>
    /\ allResults = <<>>
    /\ content = <<>>
    /\ fetchLog = <<>>
    /\ history = <<>>
    /\ results = [set |-> FALSE, list |-> <<>>]
    /\ console = <<>>
    /\ report = [written |-> FALSE, lines |-> <<>>]
    /\ exitCode = -1
    /\ rcContent = <<>>
    /\ rcPattern = <<>>
    /\ rcPlain = "idle"
    /\ rcBang = "idle"

\* process.exit(code)
Exit(code) ==
    /\ pc' = "exited"
    /\ exitCode' = code

\* const config = await loadConfig(configPath), and main's catch
LoadConfig ==
    /\ pc = "loadConfig"
    /\ IF configFile.loadable
       THEN pc' = "getRepositories" /\ exitCode' = exitCode
       ELSE Exit(1)
    /\ UNCHANGED <<argv2, configFile, repositories, checks, ri, ci,
                   repoResults, allResults, content, fetchLog, history,
                   results, console, report>>
    /\ UNCHANGED rcVars

\* getRepositories: config.dynamicRepositories?.enabled, the listing call
\* is started
GetRepositoriesDynamic ==
    /\ pc = "getRepositories"
    /\ configFile.dynamicEnabled
    /\ pc' = "listing"
    /\ UNCHANGED <<argv2, configFile, repositories, checks, ri, ci,
                   repoResults, allResults, content, fetchLog, history,
                   results, console, report, exitCode>>
    /\ UNCHANGED rcVars

\* getRepositories: return await checker.fetchBazelContribRepositories()
ListingSettles ==
    /\ pc = "listing"
    /\ \E listing \in fetchBazelContribRepositories :
          IF listing.threw
          THEN Exit(1) /\ repositories' = repositories
          ELSE /\ repositories' = listing.list
               /\ pc' = "selectChecks"
               /\ exitCode' = exitCode
    /\ UNCHANGED <<argv2, configFile, checks, ri, ci, repoResults,
                   allResults, content, fetchLog, history, results, console,
                   report>>
    /\ UNCHANGED rcVars

\* getRepositories: if (config.repositories) return config.repositories
GetRepositoriesStatic ==
    /\ pc = "getRepositories"
    /\ ~configFile.dynamicEnabled
    /\ configFile.hasRepositories
    /\ repositories' = configFile.repositories
    /\ pc' = "selectChecks"
    /\ UNCHANGED <<argv2, configFile, checks, ri, ci, repoResults,
                   allResults, content, fetchLog, history, results, console,
                   report, exitCode>>
    /\ UNCHANGED rcVars

\* getRepositories: throw new Error('No repositories configured...')
GetRepositoriesMissing ==
    /\ pc = "getRepositories"
    /\ ~configFile.dynamicEnabled
    /\ ~configFile.hasRepositories
    /\ Exit(1)
    /\ UNCHANGED <<argv2, configFile, repositories, checks, ri, ci,
                   repoResults, allResults, content, fetchLog, history,
                   results, console, report>>
    /\ UNCHANGED rcVars

\* main: the check name filter, then checkAllRepositories begins
SelectChecks ==
    /\ pc = "selectChecks"
    /\ LET named == SelectSeq(configFile.checks, LAMBDA c : c.name = argv2)
       IN  IF argv2 # <<>>
           THEN IF Len(named) = 0
                THEN /\ Exit(1)
                     /\ UNCHANGED <<checks, ri, allResults>>
                ELSE /\ checks' = named
                     /\ allResults' = <<>>
                     /\ ri' = 1
                     /\ pc' = "nextRepo"
                     /\ exitCode' = exitCode
           ELSE /\ checks' = configFile.checks
                /\ allResults' = <<>>
                /\ ri' = 1
                /\ pc' = "nextRepo"
                /\ exitCode' = exitCode
    /\ UNCHANGED <<argv2, configFile, repositories, ci, repoResults, content,
                   fetchLog, history, results, console, report>>
    /\ UNCHANGED rcVars

\* checkAllRepositories: for (const repo of repositories), and the return
NextRepository ==
    /\ pc = "nextRepo"
    /\ IF ri <= Len(repositories)
       THEN /\ repoResults' = <<>>
            /\ ci' = 1
            /\ pc' = "nextCheck"
            /\ results' = results
       ELSE /\ results' = [set |-> TRUE, list |-> allResults]
            /\ pc' = "render"
            /\ UNCHANGED <<repoResults, ci>>
    /\ UNCHANGED <<argv2, configFile, repositories, checks, ri, allResults,
                   content, fetchLog, history, console, report, exitCode>>
    /\ UNCHANGED rcVars

\* a catch that records the error and leaves the loop over the checks
CaughtAndStops(message, outcome) ==
    /\ repoResults' =
          Append(repoResults,
                 ErrorResult(repositories[ri], checks[ci], message))
    /\ history' = Append(history,
                         [repo |-> ri, check |-> ci, outcome |-> outcome])
    /\ ci' = Len(checks) + 1
    /\ pc' = "nextCheck"
    /\ content' = <<>>
    /\ fetchLog' = <<>>

\* checkRepository: catch (error) { results.push({... passed: false, error}) }
Caught(message, outcome) ==
    /\ repoResults' =
          Append(repoResults,
                 ErrorResult(repositories[ri], checks[ci], message))
    /\ history' = Append(history,
                         [repo |-> ri, check |-> ci, outcome |-> outcome])
    /\ ci' = ci + 1
    /\ pc' = "nextCheck"
    /\ content' = <<>>
    /\ fetchLog' = <<>>

\* checkRepository: for (const check of checks), fetchFileContent up to the
\* first fetch, and the return to checkAllRepositories
NextCheck ==
    /\ pc = "nextCheck"
    /\ IF ci <= Len(checks)
       THEN /\ IF InvalidRepository(repositories[ri])
               THEN Caught(InvalidFormatMessage(repositories[ri]),
                           "invalidIdentifier")
               ELSE /\ pc' = "fetchMain"
                    /\ fetchLog' = <<>>
                    /\ UNCHANGED <<repoResults, history, ci, content>>
            /\ UNCHANGED <<allResults, ri>>
       ELSE /\ allResults' = PushAll(allResults, repoResults)
            /\ repoResults' = <<>>
            /\ ri' = ri + 1
            /\ pc' = "nextRepo"
            /\ UNCHANGED <<history, ci, content, fetchLog>>
    /\ UNCHANGED <<argv2, configFile, repositories, checks, results, console,
                   report, exitCode>>
    /\ UNCHANGED rcVars

\* fetchFileContent: const response = await fetch(url)
FetchMain ==
    /\ pc = "fetchMain"
    /\ \E resp \in Responses :
          LET step == OnMainResponse(resp, checks[ci].file) IN
              IF step.do = "throw"
              THEN Caught(step.message, "transport")
              ELSE /\ fetchLog' =
                        Append(fetchLog, [branch |-> "main", resp |-> resp])
                   /\ IF step.do = "return"
                      THEN content' = <<step.message>> /\ pc' = "runCheck"
                      ELSE content' = content /\ pc' = "fetchMaster"
                   /\ UNCHANGED <<repoResults, history, ci>>
    /\ UNCHANGED <<argv2, configFile, repositories, checks, ri, allResults,
                   results, console, report, exitCode>>
    /\ UNCHANGED rcVars

\* fetchFileContent: const masterResponse = await fetch(masterUrl)
FetchMaster ==
    /\ pc = "fetchMaster"
    /\ \E resp \in Responses :
          LET step == OnMasterResponse(resp, checks[ci].file) IN
              IF step.do = "throw"
              THEN Caught(step.message,
                          IF resp.kind = "reject" THEN "transport"
                          ELSE "notFound")
              ELSE /\ fetchLog' =
                        Append(fetchLog, [branch |-> "master", resp |-> resp])
                   /\ content' = <<step.message>>
                   /\ pc' = "runCheck"
                   /\ UNCHANGED <<repoResults, history, ci>>
    /\ UNCHANGED <<argv2, configFile, repositories, checks, ri, allResults,
                   results, console, report, exitCode>>
    /\ UNCHANGED rcVars

\* checkRepository: const passed = this.runCheck(content, check); push
RunCheck ==
    /\ pc = "runCheck"
    /\ LET r == runCheck(content[1], checks[ci].pattern) IN
          IF r.threw
          THEN Caught(r.message, "patternError")
          ELSE /\ repoResults' =
                    Append(repoResults,
                           PassResult(repositories[ri], checks[ci], r.value))
               /\ history' =
                    Append(history,
                           [repo |-> ri, check |-> ci,
                            outcome |-> "evaluated"])
               /\ ci' = ci + 1
               /\ pc' = "nextCheck"
               /\ content' = <<>>
               /\ fetchLog' = <<>>
    /\ UNCHANGED <<argv2, configFile, repositories, checks, ri, allResults,
                   results, console, report, exitCode>>
    /\ UNCHANGED rcVars

\* main: reportResults(results); generateMarkdownReport(results); a throw
\* of either reaches main's catch
RenderReports ==
    /\ pc = "render"
    /\ LET out == reportResults(results.list)
           md == generateMarkdownReport(results.list)
       IN  /\ console' = out.lines
           /\ IF out.threw \/ md.threw
              THEN Exit(1) /\ report' = report
              ELSE /\ report' = [written |-> FALSE, lines |-> md.lines]
                   /\ pc' = "writeFile"
                   /\ exitCode' = exitCode
    /\ UNCHANGED <<argv2, configFile, repositories, checks, ri, ci,
                   repoResults, allResults, content, fetchLog, history,
                   results>>
    /\ UNCHANGED rcVars

\* main: await writeFile(REPORT_FILE, ...); process.exit(hasFailures ? 1 : 0)
WriteFileDone ==
    /\ pc = "writeFile"
    /\ report' = [report EXCEPT !.written = TRUE]
    /\ Exit(ExitStatus(results.list))
    /\ UNCHANGED <<argv2, configFile, repositories, checks, ri, ci,
                   repoResults, allResults, content, fetchLog, history,
                   results, console>>
    /\ UNCHANGED rcVars

\* main: writeFile rejects; catch (error) { process.exit(1) }
WriteFileFailed ==
    /\ pc = "writeFile"
    /\ Exit(1)
    /\ UNCHANGED <<argv2, configFile, repositories, checks, ri, ci,
                   repoResults, allResults, content, fetchLog, history,
                   results, console, report>>
    /\ UNCHANGED rcVars

Next ==
    \/ LoadConfig
    \/ GetRepositoriesDynamic
    \/ ListingSettles
    \/ GetRepositoriesStatic
    \/ GetRepositoriesMissing
    \/ SelectChecks
    \/ NextRepository
    \/ NextCheck
    \/ FetchMain
    \/ FetchMaster
    \/ RunCheck
    \/ RenderReports
    \/ WriteFileDone
    \/ WriteFileFailed

Spec == Init /\ [][Next]_vars

TypeOK == exitCode \in {-1, 0, 1}

---------------------------------------------------------------------------
(* runCheck on its own: every content and pattern within the bounds *)

ContentAlphabet == {"a", "b", "!"}

PatternAlphabet == {"a", "b", "!", ".", "("}

Outcome(r) ==
    IF r.threw THEN "throw" ELSE IF r.value THEN "true" ELSE "false"

InitRunCheck ==
    /\ pc = "harness"
    /\ argv2 = <<>>
    /\ configFile \in {c \in ConfigFiles : ~c.loadable}
    /\ repositories = <<>>
    /\ checks = <<>>
    /\ ri = 0
    /\ ci = 0
    /\ repoResults = <<>>
    /\ allResults = <<>>
    /\ content = <<>>
    /\ fetchLog = <<>>
    /\ history = <<>>
    /\ results = [set |-> FALSE, list |-> <<>>]
    /\ console = <<>>
    /\ report = [written |-> FALSE, lines |-> <<>>]
    /\ exitCode = -1
    /\ rcContent \in SeqsUpTo(ContentAlphabet, MaxContentLen)
    /\ rcPattern \in SeqsUpTo(PatternAlphabet, MaxPatternLen)
    /\ rcPlain = "unset"
    /\ rcBang = "unset"

\* runCheck(content, {pattern: X})
EvalPlain ==
    /\ pc = "harness"
    /\ rcPlain = "unset"
    /\ rcPlain' = Outcome(runCheck(rcContent, rcPattern))
    /\ UNCHANGED <<rcContent, rcPattern, rcBang>>
    /\ UNCHANGED mainVars

\* runCheck(content, {pattern: "!" + X})
EvalBang ==
    /\ pc = "harness"
    /\ rcBang = "unset"
    /\ rcBang' = Outcome(runCheck(rcContent, <<"!">> \o rcPattern))
    /\ UNCHANGED <<rcContent, rcPattern, rcPlain>>
    /\ UNCHANGED mainVars

NextRunCheck == EvalPlain \/ EvalBang

SpecRunCheck == InitRunCheck /\ [][NextRunCheck]_vars

---------------------------------------------------------------------------
(* Properties *)

\* every CheckResult produced so far, in order
Evaluated == allResults \o repoResults

Excludes(check, repoPath) ==
    \E i \in 1..Len(check.exclude) : check.exclude[i].repository = repoPath

\* the check is enabled and does not exclude the repository
Applies(check, repoPath) == check.enabled /\ ~Excludes(check, repoPath)

\* C1: a (repository, check) pair whose check is disabled or excludes the
\* repository gets no CheckResult, and no fetch is made for it
C1_NoResultForSkippedPair ==
    /\ \A k \in 1..Len(history) :
          Applies(checks[history[k].check], repositories[history[k].repo])
    /\ pc \in {"fetchMain", "fetchMaster", "runCheck"}
          => Applies(checks[ci], repositories[ri])

\* C2: the number of CheckResults returned equals the number of
\* (repository, check) positions whose check is enabled and does not
\* exclude the repository
C2_ResultSetCompleteness ==
    results.set =>
        Len(results.list) =
            Cardinality({p \in (1..Len(repositories)) \X (1..Len(checks)) :
                            Applies(checks[p[2]], repositories[p[1]])})

\* C3: when neither branch serves the file the CheckResult has passed=false
\* and error exactly "File not found: <filePath>"
C3_NotFoundErrorText ==
    \A k \in 1..Len(history) :
        history[k].outcome = "notFound" =>
            /\ ~Evaluated[k].passed
            /\ "error" \in DOMAIN Evaluated[k]
            /\ Evaluated[k].error
                  = NotFoundMessage(checks[history[k].check].file)

\* the check of the run that a result names
CheckNamed(name) ==
    checks[CHOOSE j \in 1..Len(checks) : checks[j].name = name]

\* some failed CheckResult for (name, repoPath) exists
FailedFor(name, repoPath) ==
    \E i \in 1..Len(results.list) :
        /\ results.list[i].check = name
        /\ results.list[i].repository = repoPath
        /\ ~results.list[i].passed

\* the console shows "Fix first: <name>" under the failure line of
\* (check, repoPath)
ConsoleRefers(failure, name) ==
    \E i \in 1..Len(console) : \E j \in (i + 1)..Len(console) :
        /\ console[i].kind = "failure"
        /\ console[i].check = failure.check
        /\ console[i].repository = failure.repository
        /\ \A m \in (i + 1)..j : console[m].kind = "fixFirst"
        /\ console[j].check = name

\* the markdown row of (check, repoPath) links to name
MarkdownRefers(failure, name) ==
    \E i \in 1..Len(report.lines) :
        /\ report.lines[i].kind = "row"
        /\ report.lines[i].check = failure.check
        /\ report.lines[i].repository = failure.repository
        /\ \E m \in 1..Len(report.lines[i].fixFirst) :
              report.lines[i].fixFirst[m] = name

\* C4: once both reports are rendered, the failure line of B on r carries a
\* "fix first" reference to each check A that B requires exactly when A
\* also failed on r
C4_FixFirstAnnotation ==
    pc = "writeFile" =>
        \A i \in 1..Len(results.list) :
            LET failure == results.list[i]
                reqs == CheckNamed(failure.check).requires
            IN  ~failure.passed =>
                    \A m \in 1..Len(reqs) :
                        /\ ConsoleRefers(failure, reqs[m].check)
                              <=> FailedFor(reqs[m].check, failure.repository)
                        /\ MarkdownRefers(failure, reqs[m].check)
                              <=> FailedFor(reqs[m].check, failure.repository)

Truth(b) == IF b THEN "true" ELSE "false"

Negation(o) ==
    IF o = "true" THEN "false" ELSE IF o = "false" THEN "true" ELSE o

\* the result for X is the search of regex X, the result for "!X" is the
\* negated search of regex X (X a valid regex)
RunCheckSearches ==
    /\ (rcPlain # "unset" /\ ~IsNegated(rcPattern) /\ ~Malformed(rcPattern))
          => rcPlain = Truth(Test(rcPattern, rcContent))
    /\ (rcBang # "unset" /\ ~Malformed(rcPattern))
          => rcBang = Truth(~Test(rcPattern, rcContent))
    /\ (rcBang # "unset" /\ Malformed(rcPattern)) => rcBang = "throw"

\* C5 as stated: runCheck searches X, negates for "!X", and the result for
\* "!X" is the negation of the result for X, for every X
C5_NegationForEveryPattern ==
    /\ RunCheckSearches
    /\ (rcPlain # "unset" /\ rcBang # "unset") => rcBang = Negation(rcPlain)

\* C5 amended: runCheck searches X, negates for "!X", and the result for
\* "!X" is the negation of the result for X when X itself does not start
\* with "!"
C5_NegationForPlainPattern ==
    /\ RunCheckSearches
    /\ (rcPlain # "unset" /\ rcBang # "unset" /\ ~IsNegated(rcPattern))
          => rcBang = Negation(rcPlain)

\* a plain pattern found inside a longer content, evaluated both ways
C5_Witness ==
    /\ rcPlain = "true"
    /\ rcBang = "false"
    /\ ~IsNegated(rcPattern)
    /\ Len(rcPattern) > 0
    /\ Len(rcContent) > Len(rcPattern)

\* C6: main is fetched first and its successful body returned; master is
\* fetched once, only after a non-success response of main, and its
\* successful body returned verbatim; never more than two attempts
C6_FetchFallback ==
    /\ Len(fetchLog) <= 2
    /\ \A i \in 1..Len(fetchLog) :
          fetchLog[i].branch = <<"main", "master">>[i]
    /\ Len(fetchLog) = 2 =>
          fetchLog[1].resp.kind = "response" /\ ~fetchLog[1].resp.ok
    /\ pc = "fetchMaster" => Len(fetchLog) = 1
    /\ pc = "runCheck" =>
          /\ Len(fetchLog) >= 1
          /\ fetchLog[Len(fetchLog)].resp.ok
          /\ content = <<fetchLog[Len(fetchLog)].resp.body>>

\* main answered non-success, master served a body, and that body is the
\* content handed to runCheck
C6_Witness ==
    /\ pc = "runCheck"
    /\ Len(fetchLog) = 2
    /\ content = <<fetchLog[2].resp.body>>
    /\ fetchLog[2].resp.body # fetchLog[1].resp.body

\* a fatal error ends the run with status 1 before any check is evaluated,
\* and a failed CheckResult gives status 1
ExitsOnFailure ==
    pc = "exited" =>
        /\ exitCode \in {0, 1}
        /\ hasFailures(results.list) => exitCode = 1
        /\ ~results.set =>
              /\ exitCode = 1
              /\ history = <<>>
              /\ Evaluated = <<>>
              /\ fetchLog = <<>>
              /\ ri \in {0, 1}
              /\ ci = 0

\* C7 as stated: status 0 exactly when the evaluation ended and every
\* CheckResult passed; status 1 on a failed result or a fatal error, the
\* fatal error ending the run before any evaluation
C7_ExitCodeByResultsOnly ==
    /\ ExitsOnFailure
    /\ pc = "exited" =>
          (exitCode = 0 <=> (results.set /\ ~hasFailures(results.list)))

\* C7 amended: status 0 exactly when the evaluation ended, every CheckResult
\* passed and the report file was written; status 1 otherwise
C7_ExitCode ==
    /\ ExitsOnFailure
    /\ pc = "exited" =>
          (exitCode = 0 <=>
              (results.set /\ ~hasFailures(results.list) /\ report.written))

\* a run with results, all passed, report written, status 0
C7_Witness ==
    /\ pc = "exited"
    /\ exitCode = 0
    /\ Len(results.list) >= 2
    /\ report.written

\* the message of the failure behind an errored evaluation
FailureMessage(outcome, repoPath, check) ==
    CASE outcome = "invalidIdentifier" -> InvalidFormatMessage(repoPath)
      [] outcome = "notFound" ->
            FailedToFetchMessage(check.file,
                [name |-> "Error", message |-> NotFoundMessage(check.file)])
      [] outcome = "transport" ->
            FailedToFetchMessage(check.file, TransportError)
      [] outcome = "patternError" ->
            SyntaxErrorMessage(IF IsNegated(check.pattern)
                               THEN Tail(check.pattern) ELSE check.pattern)

\* C8: every evaluation leaves exactly one CheckResult; a failure leaves
\* passed=false with the failure's message; a malformed identifier fails
\* each check of its repository; the run goes on to every later check and
\* repository
C8_CollectAll ==
    /\ Len(Evaluated) = Len(history)
    /\ \A k \in 1..Len(history) :
          LET h == history[k]
              r == Evaluated[k]
              repoPath == repositories[h.repo]
              check == checks[h.check]
          IN  /\ r.repository = repoPath
              /\ r.check = check.name
              /\ h.repo = ((k - 1) \div Len(checks)) + 1
              /\ h.check = ((k - 1) % Len(checks)) + 1
              /\ InvalidRepository(repoPath)
                    <=> h.outcome = "invalidIdentifier"
              /\ h.outcome # "evaluated" =>
                    /\ ~r.passed
                    /\ "error" \in DOMAIN r
                    /\ r.error = FailureMessage(h.outcome, repoPath, check)
    /\ results.set =>
          /\ results.list = Evaluated
          /\ Len(results.list) = Len(repositories) * Len(checks)

\* a malformed repository is followed by a repository whose checks end in
\* a not-found and a pattern error, and the run returned
C8_Witness ==
    /\ results.set
    /\ Len(history) = 4
    /\ history[1].outcome = "invalidIdentifier"
    /\ history[2].outcome = "invalidIdentifier"
    /\ \E k \in 3..4 : history[k].outcome = "notFound"
    /\ \E k \in 3..4 : history[k].outcome = "patternError"

UniquePairs(rs) ==
    \A i, j \in 1..Len(rs) :
        i # j => <<rs[i].repository, rs[i].check>>
                    # <<rs[j].repository, rs[j].check>>

NoRepeatedRepository ==
    \A i, j \in 1..Len(repositories) :
        i # j => repositories[i] # repositories[j]

\* C9 as stated: no two CheckResults share (repository, check), whatever
\* the repository list
C9_UniquePairsAlways == UniquePairs(Evaluated) /\ UniquePairs(results.list)

\* C9 amended: no two CheckResults share (repository, check) when the
\* repository list names no repository twice (check names being unique)
C9_UniquePairs ==
    NoRepeatedRepository =>
        UniquePairs(Evaluated) /\ UniquePairs(results.list)

\* two distinct repositories and two checks, four results returned
C9_Witness ==
    /\ results.set
    /\ Len(results.list) = 4
    /\ NoRepeatedRepository

\* the failure lines of a rendering, in order
FailureRows(lines) ==
    SelectSeq(lines, LAMBDA l : l.kind \in {"failure", "row"})

\* rows are the failed results, each once, ordered by check name, then
\* repository, then evaluation order
GroupedAndSorted(rows, rs) ==
    LET failed == failedResults(rs) IN
        /\ Len(rows) = Len(failed)
        /\ \E p \in [1..Len(rows) -> 1..Len(rows)] :
              /\ \A i, j \in 1..Len(rows) : i # j => p[i] # p[j]
              /\ \A i \in 1..Len(rows) :
                    /\ rows[i].check = failed[p[i]].check
                    /\ rows[i].repository = failed[p[i]].repository
                    /\ rows[i].filePath = failed[p[i]].filePath
              /\ \A i, j \in 1..Len(rows) :
                    i < j =>
                        \/ StrLess(rows[i].check, rows[j].check)
                        \/ /\ rows[i].check = rows[j].check
                           /\ StrLess(rows[i].repository, rows[j].repository)
                        \/ /\ rows[i].check = rows[j].check
                           /\ rows[i].repository = rows[j].repository
                           /\ p[i] < p[j]

\* C10: after rendering, console and markdown each show exactly the failed
\* results, once each, grouped by check name ascending, then repository
\* ascending, then in evaluation order
C10_ReportGrouping ==
    (results.set /\ pc \in {"writeFile", "exited"}) =>
        /\ GroupedAndSorted(FailureRows(console), results.list)
        /\ GroupedAndSorted(FailureRows(report.lines), results.list)

\* position k of the result list holds the result of repository
\* ((k-1) div n) + 1 and check ((k-1) mod n) + 1, n the number of checks
InListOrder(rs) ==
    \A k \in 1..Len(rs) :
        LET r == ((k - 1) \div Len(checks)) + 1
            c == ((k - 1) % Len(checks)) + 1
        IN  /\ r <= Len(repositories)
            /\ rs[k].repository = repositories[r]
            /\ rs[k].check = checks[c].name
            /\ rs[k].filePath = checks[c].file

\* the evaluation under way is the one right after the last recorded one
OneAtATime ==
    /\ pc \in {"fetchMain", "fetchMaster", "runCheck"} =>
          Len(Evaluated) = (ri - 1) * Len(checks) + (ci - 1)
    /\ pc = "nextCheck" =>
          /\ Len(allResults) = (ri - 1) * Len(checks)
          /\ Len(repoResults) = ci - 1
    /\ pc = "nextRepo" =>
          /\ Len(allResults) = (ri - 1) * Len(checks)
          /\ repoResults = <<>>

\* a step only appends to the results produced so far
AppendOnly ==
    /\ IsPrefix(Evaluated, Evaluated')
    /\ Len(Evaluated') <= Len(Evaluated) + 1
    /\ results.set => results' = results

\* C11: repositories are processed in list order and checks in list order,
\* one evaluation at a time; a CheckResult once appended is never changed
\* or removed; the returned list is in repository order x check order
C11_EvaluationOrder ==
    /\ [](InListOrder(Evaluated) /\ OneAtATime)
    /\ [](results.set =>
            /\ results.list = Evaluated
            /\ InListOrder(results.list))
    /\ [][AppendOnly]_vars

\* two different repositories and two checks: the four results returned,
\* the first repository's two before the second's
C11_Witness ==
    /\ results.set
    /\ Len(results.list) = 4
    /\ repositories[1] # repositories[2]
    /\ results.list[2].repository = repositories[1]
    /\ results.list[3].repository = repositories[2]
    /\ results.list[1].check # results.list[2].check
    /\ results.list[1].check = results.list[3].check

=============================================================================
